---- MODULE Spec2Model ----
(***************************************************************************)
(* Model of the subscription manager of the CloudEvents broker             *)
(* (package subscriptions: Manager, UpdateFromConfig, DispatchCloudEvent,  *)
(* dispatchCloudEventToTarget, send, materializeFiltersList).              *)
(*                                                                         *)
(* Go pointers are options: <<>> is nil, <<x>> points to x.                *)
(* Attribute values are sequences of tokens so that prefix and suffix      *)
(* matching is computed, not assumed.                                      *)
(***************************************************************************)
EXTENDS Integers, Sequences, FiniteSets, TLC

VARIABLES
    subscribers,   \* Manager.subscribers: name -> the subscriber's trigger
    triggers,      \* Manager.triggers: name -> trigger
    ceHandler,     \* Manager.ceHandler is set
    lock,          \* Manager.m: "free", "w" (Lock) or "r" (RLock)
    backendSubs,   \* backend: name -> number of registered subscriptions
    pcU,           \* position of the UpdateFromConfig call
    cfg,           \* c.Triggers of the running (or last) UpdateFromConfig
    todo,          \* keys the running range loop has not visited yet
    cur,           \* key of the iteration in progress
    hist,          \* observation of the calls: see HistInit
    pcD,           \* position of the DispatchCloudEvent call
    event,         \* the event being dispatched
    dtodo,         \* keys of m.triggers the range loop has not visited yet
    dcur,          \* key of the trigger being dispatched
    ctx,           \* the send context: target and retry policy
    phase,         \* "primary" or "deadletter": which send is running
    pending,       \* the reply of the last Request, awaiting the handler
    obs,           \* observation of the dispatch: see ObsInit
    pcS,           \* position of Instance.Start
    bTask,         \* the goroutine of backend.Start: "none", "running", "done"
    iTask,         \* the goroutine of ingest.Start: "none", "running", "done"
    ctxDone,       \* the shared context (sigctx and the group's ctx) is cancelled
    grpErr,        \* the errgroup's err: the task whose error it keeps
    startErr,      \* what Start returned
    sup,           \* observation of Start: see SupInit
    fin,           \* a trigger's filter list given to materializeFiltersList
    fev,           \* the event given to the materialized filter
    fmat,          \* the materialized filters
    fout,          \* the filter's result
    fpc            \* position of the filter evaluation

vars == <<subscribers, triggers, ceHandler, lock, backendSubs, pcU, cfg, todo,
          cur, hist, pcD, event, dtodo, dcur, ctx, phase, pending, obs,
          pcS, bTask, iTask, ctxDone, grpErr, startErr, sup, fin, fev, fmat, fout, fpc>>

managerVars == <<subscribers, backendSubs, pcU, cfg, todo, cur, hist>>
dispatchVars == <<pcD, event, dtodo, dcur, ctx, phase, pending, obs>>
startVars == <<pcS, bTask, iTask, ctxDone, grpErr, startErr, sup>>
filterVars == <<fin, fev, fmat, fout, fpc>>

None == <<>>
Some(x) == <<x>>
IsNil(p) == p = <<>>
Deref(p) == p[1]

Names == {"A", "B", "C"}
NoName == "-"

\* the number of UpdateFromConfig calls of a run
MaxCalls == 3

\* the empty map (a nil or empty Go map)
EmptyMap == [n \in {} |-> None]

Restrict(f, S) == [x \in S |-> f[x]]

-----------------------------------------------------------------------------
(* Events and filter expressions *)

TypeExT == <<"ex", "t">>
TypeOther == <<"ot", "t">>

E1 == [id |-> <<"1">>, source |-> <<"s">>, type |-> TypeExT]
E2 == [id |-> <<"2">>, source |-> <<"s">>, type |-> TypeOther]
Events == {E1, E2}
Reply == [id |-> <<"r">>, source |-> <<"t">>, type |-> TypeOther]

\* eventingv1.SubscriptionsAPIFilter: the populated member is `kind`
FilterExpr(k, a, v, s, q) == [kind |-> k, attr |-> a, value |-> v, subs |-> s, cesql |-> q]
ExactF(a, v) == FilterExpr("exact", a, v, <<>>, "")
PrefixF(a, v) == FilterExpr("prefix", a, v, <<>>, "")
SuffixF(a, v) == FilterExpr("suffix", a, v, <<>>, "")
AllF(s) == FilterExpr("all", "", <<>>, s, "")
AnyF(s) == FilterExpr("any", "", <<>>, s, "")
NotF(f) == FilterExpr("not", "", <<>>, <<f>>, "")
CESQLF(q) == FilterExpr("cesql", "", <<>>, <<>>, q)

\* the nil eventfilter.Filter
NilFilter == FilterExpr("nil", "", <<>>, <<>>, "")

\* CESQL expressions of the model: two that compile, one that does not
CESQLTrue == "TRUE"
CESQLFalse == "FALSE"
CESQLInvalid == "type ="
CESQLCompiles(q) == q \in {CESQLTrue, CESQLFalse}

\* subscriptionsapi.NewExactFilter / NewPrefixFilter / NewSuffixFilter return an
\* error for an empty attribute or an empty value
LeafError(a, v) == a = "" \/ v = <<>>

RECURSIVE materializeSubscriptionsAPIFilter(_)
RECURSIVE materializeFiltersList(_)

materializeFiltersList(filters) ==
    IF filters = <<>> THEN <<>>
    ELSE LET f == materializeSubscriptionsAPIFilter(Head(filters))
             rest == materializeFiltersList(Tail(filters))
         IN IF f = NilFilter THEN rest ELSE <<f>> \o rest

materializeSubscriptionsAPIFilter(filter) ==
    CASE filter.kind \in {"exact", "prefix", "suffix"} ->
            IF LeafError(filter.attr, filter.value) THEN NilFilter ELSE filter
      [] filter.kind = "all" /\ Len(filter.subs) > 0 ->
            AllF(materializeFiltersList(filter.subs))
      [] filter.kind = "any" /\ Len(filter.subs) > 0 ->
            AnyF(materializeFiltersList(filter.subs))
      [] filter.kind = "not" /\ Len(filter.subs) > 0 ->
            NotF(materializeSubscriptionsAPIFilter(filter.subs[1]))
      [] filter.kind = "cesql" /\ filter.cesql # "" ->
            IF CESQLCompiles(filter.cesql) THEN filter ELSE NilFilter
      [] OTHER -> NilFilter

\* eventfilter.FilterResult
PassFilter == "pass"
FailFilter == "fail"
NoFilter == "no_filter"
\* a nil filter was called: the goroutine panics
FilterPanic == "panic"

\* FilterResult.And, FilterResult.Or
ResAnd(x, y) ==
    IF x = NoFilter THEN y
    ELSE IF y = NoFilter THEN x
    ELSE IF x = PassFilter /\ y = PassFilter THEN PassFilter ELSE FailFilter

ResOr(x, y) ==
    IF x = NoFilter THEN y
    ELSE IF y = NoFilter THEN x
    ELSE IF x = PassFilter \/ y = PassFilter THEN PassFilter ELSE FailFilter

IsPrefix(p, s) == Len(p) <= Len(s) /\ SubSeq(s, 1, Len(p)) = p
IsSuffix(p, s) == Len(p) <= Len(s) /\ SubSeq(s, Len(s) - Len(p) + 1, Len(s)) = p

RECURSIVE Filter(_, _)
RECURSIVE FilterAll(_, _, _)
RECURSIVE FilterAny(_, _, _)

\* allFilter.Filter: And over the children, returning at the first Fail
FilterAll(fs, e, res) ==
    IF fs = <<>> THEN res
    ELSE LET r == Filter(Head(fs), e)
         IN IF r = FilterPanic THEN FilterPanic
            ELSE IF ResAnd(res, r) = FailFilter THEN FailFilter
            ELSE FilterAll(Tail(fs), e, ResAnd(res, r))

\* anyFilter.Filter: Or over the children, returning at the first Pass
FilterAny(fs, e, res) ==
    IF fs = <<>> THEN res
    ELSE LET r == Filter(Head(fs), e)
         IN IF r = FilterPanic THEN FilterPanic
            ELSE IF ResOr(res, r) = PassFilter THEN PassFilter
            ELSE FilterAny(Tail(fs), e, ResOr(res, r))

\* the Filter method of a materialized filter
Filter(f, e) ==
    CASE f.kind = "nil" -> FilterPanic
      [] f.kind = "exact" ->
            IF f.attr \in DOMAIN e /\ e[f.attr] = f.value THEN PassFilter ELSE FailFilter
      [] f.kind = "prefix" ->
            IF f.attr \in DOMAIN e /\ IsPrefix(f.value, e[f.attr]) THEN PassFilter ELSE FailFilter
      [] f.kind = "suffix" ->
            IF f.attr \in DOMAIN e /\ IsSuffix(f.value, e[f.attr]) THEN PassFilter ELSE FailFilter
      [] f.kind = "all" -> FilterAll(f.subs, e, NoFilter)
      [] f.kind = "any" -> FilterAny(f.subs, e, NoFilter)
      [] f.kind = "not" ->
            LET r == Filter(f.subs[1], e)
            IN CASE r = FailFilter -> PassFilter
                 [] r = PassFilter -> FailFilter
                 [] r = FilterPanic -> FilterPanic
                 [] OTHER -> NoFilter
      [] f.kind = "cesql" -> IF f.cesql = CESQLTrue THEN PassFilter ELSE FailFilter
      [] OTHER -> FilterPanic

\* line 131: NewAllFilter(materializeFiltersList(ctx, filters)...).Filter(ctx, event)
CombinedFilter(filters, e) == Filter(AllF(materializeFiltersList(filters)), e)

-----------------------------------------------------------------------------
(* Targets, delivery options and triggers (package config) *)

BackoffPolicyLinear == "linear"
BackoffPolicyExponential == "exponential"
BackoffPolicyConstant == "constant"

DelayOK == "PT1S"
DelayBad == "1 second"

\* period.Parse: the error, and the period's DurationApprox in seconds (the
\* zero Period is returned with an error)
PeriodParse(str) ==
    IF str = DelayOK THEN [err |-> FALSE, dur |-> 1] ELSE [err |-> TRUE, dur |-> 0]

DeliveryOptions(r, p, d, dl) == [retry |-> r, policy |-> p, delay |-> d, dlurl |-> dl]
Target(u, o) == [url |-> u, opts |-> o]
Trigger(fs, t) == [filters |-> fs, target |-> t]

URLT == "http://t"
URLT2 == "http://t2"
URLD == "http://dlq"

-----------------------------------------------------------------------------
(* subscriber and backend: their code is not part of the files at hand *)

\* a filter expression that does not compile makes the whole filter invalid
RECURSIVE CompileFails(_)
RECURSIVE AnyCompileFails(_)
AnyCompileFails(fs) ==
    IF fs = <<>> THEN FALSE ELSE CompileFails(Head(fs)) \/ AnyCompileFails(Tail(fs))

CompileFails(f) ==
    \/ f.kind = "cesql" /\ ~CESQLCompiles(f.cesql)
    \/ f.kind \in {"exact", "prefix", "suffix"} /\ f.attr = ""
    \/ AnyCompileFails(f.subs)

\* subscriber.updateTrigger(trigger) returns an error: the filter does not
\* compile or the backoff delay does not parse
updateTriggerFails(trigger) ==
    \/ AnyCompileFails(trigger.filters)
    \/ /\ ~IsNil(trigger.target.opts)
       /\ ~IsNil(Deref(trigger.target.opts).delay)
       /\ PeriodParse(Deref(Deref(trigger.target.opts).delay)).err

\* backend.Subscribe(name, handler): one more registration under name
BackendSubscribe(b, name) == [b EXCEPT ![name] = IF @ >= 2 THEN 2 ELSE @ + 1]

\* subscriber.unsubscribe(): cancels the subscriber and calls
\* backend.Unsubscribe(name), which removes the registration
BackendUnsubscribe(b, name) == [b EXCEPT ![name] = 0]

-----------------------------------------------------------------------------
(* Manager.UpdateFromConfig *)

\* triggers a configuration snapshot is drawn from: two that set up (they
\* differ in target.url only) and one whose filter does not compile
TrigG1 == Trigger(<<ExactF("type", TypeExT)>>, Target(URLT, None))
TrigG2 == Trigger(<<ExactF("type", TypeExT)>>, Target(URLT2, None))
TrigBad == Trigger(<<CESQLF(CESQLInvalid)>>, Target(URLT, None))
ConfigPool == {TrigG1, TrigG2, TrigBad}

Snapshots == UNION {[S -> ConfigPool] : S \in SUBSET Names}

\* what the calls did, for the properties:
\*   prev: the keys of the snapshot of the call before (None: no call before)
\*   entry: the keys of m.subscribers when the call took the lock
\*   subscribed, unsubscribed: the names the call passed to the backend
\*   failed: the names whose updateTrigger returned an error in the call
\*   twice: a name was subscribed while the backend held a registration for it
\*   same: the call was given the snapshot of the call before
\*   changed: the call wrote m.subscribers or a subscriber's trigger
HistInit == [prev |-> None, entry |-> {}, subscribed |-> {}, unsubscribed |-> {},
             failed |-> {}, twice |-> FALSE, calls |-> 0, same |-> FALSE,
             changed |-> FALSE]

\* line 80: _, ok := c.Triggers[k]
InSnapshot(k) == k \in DOMAIN cfg

\* the lookup done in m.triggers, which is never filled, instead of m.subscribers
Exists_InTriggers(name) == name \in DOMAIN triggers

\* line 87: s, ok := m.subscribers[name]
Exists(name) == name \in DOMAIN subscribers

\* line 109: reflect.DeepEqual(s.trigger, trigger)
DeepEqual(t1, t2) == t1 = t2

\* line 82: delete(m.subscribers, k)
DeleteSubscriber(subs, k) == Restrict(subs, DOMAIN subs \ {k})

\* the subscriber is subscribed at the backend and not stored
InsertSubscriber_Dropped(subs, name, trigger) == subs

\* line 104: m.subscribers[name] = s    (s.trigger was set by updateTrigger)
InsertSubscriber(subs, name, trigger) ==
    [n \in DOMAIN subs \cup {name} |-> IF n = name THEN trigger ELSE subs[n]]

\* lines 72-79: take the lock, start the range over m.subscribers
UFC_Lock ==
    /\ pcU = "idle"
    /\ lock = "free"
    /\ hist.calls < MaxCalls
    /\ \E c \in Snapshots :
          /\ cfg' = c
          /\ hist' = [prev |-> IF hist.calls = 0 THEN None ELSE Some(DOMAIN cfg),
                      entry |-> DOMAIN subscribers,
                      subscribed |-> {}, unsubscribed |-> {}, failed |-> {},
                      twice |-> hist.twice, calls |-> hist.calls + 1,
                      same |-> (hist.calls > 0 /\ c = cfg), changed |-> FALSE]
    /\ lock' = "w"
    /\ todo' = DOMAIN subscribers
    /\ pcU' = "remove"
    /\ cur' = NoName
    /\ UNCHANGED <<subscribers, backendSubs, triggers, ceHandler>>
    /\ UNCHANGED dispatchVars
    /\ UNCHANGED <<startVars, filterVars>>

\* lines 79-80: a subscriber whose name is in the snapshot stays
UFC_Keep ==
    /\ pcU = "remove"
    /\ \E k \in todo :
          /\ InSnapshot(k)
          /\ todo' = todo \ {k}
    /\ UNCHANGED <<subscribers, backendSubs, triggers, ceHandler, lock, pcU, cfg, cur, hist>>
    /\ UNCHANGED dispatchVars
    /\ UNCHANGED <<startVars, filterVars>>

\* lines 80-81: sub.unsubscribe()
UFC_Unsubscribe ==
    /\ pcU = "remove"
    /\ \E k \in todo :
          /\ ~InSnapshot(k)
          /\ todo' = todo \ {k}
          /\ cur' = k
          /\ backendSubs' = BackendUnsubscribe(backendSubs, k)
          /\ hist' = [hist EXCEPT !.unsubscribed = @ \cup {k}]
    /\ pcU' = "delete"
    /\ UNCHANGED <<subscribers, triggers, ceHandler, lock, cfg>>
    /\ UNCHANGED dispatchVars
    /\ UNCHANGED <<startVars, filterVars>>

\* line 82: delete(m.subscribers, k)
UFC_Delete ==
    /\ pcU = "delete"
    /\ subscribers' = DeleteSubscriber(subscribers, cur)
    /\ hist' = [hist EXCEPT !.changed = @ \/ subscribers' # subscribers]
    /\ pcU' = "remove"
    /\ cur' = NoName
    /\ UNCHANGED <<backendSubs, triggers, ceHandler, lock, cfg, todo>>
    /\ UNCHANGED dispatchVars
    /\ UNCHANGED <<startVars, filterVars>>

\* line 86: the first range is over, the range over c.Triggers starts
UFC_StartAdd ==
    /\ pcU = "remove"
    /\ todo = {}
    /\ todo' = DOMAIN cfg
    /\ pcU' = "add"
    /\ UNCHANGED <<subscribers, backendSubs, triggers, ceHandler, lock, cfg, cur, hist>>
    /\ UNCHANGED dispatchVars
    /\ UNCHANGED <<startVars, filterVars>>

\* lines 88-101: a new name whose updateTrigger fails: log and return
\* (the deferred Unlock runs)
UFC_NewFails ==
    /\ pcU = "add"
    /\ \E name \in todo :
          /\ ~Exists(name)
          /\ updateTriggerFails(cfg[name])
          /\ hist' = [hist EXCEPT !.failed = @ \cup {name}]
    /\ lock' = "free"
    /\ pcU' = "idle"
    /\ todo' = {}
    /\ UNCHANGED <<subscribers, backendSubs, triggers, ceHandler, cfg, cur>>
    /\ UNCHANGED dispatchVars
    /\ UNCHANGED <<startVars, filterVars>>

\* lines 88-103: a new name: updateTrigger, then m.backend.Subscribe
UFC_Subscribe ==
    /\ pcU = "add"
    /\ \E name \in todo :
          /\ ~Exists(name)
          /\ ~updateTriggerFails(cfg[name])
          /\ todo' = todo \ {name}
          /\ cur' = name
          /\ backendSubs' = BackendSubscribe(backendSubs, name)
          /\ hist' = [hist EXCEPT !.subscribed = @ \cup {name},
                                  !.twice = @ \/ backendSubs[name] >= 1]
    /\ pcU' = "insert"
    /\ UNCHANGED <<subscribers, triggers, ceHandler, lock, cfg>>
    /\ UNCHANGED dispatchVars
    /\ UNCHANGED <<startVars, filterVars>>

\* lines 104-106: m.subscribers[name] = s; continue
UFC_Insert ==
    /\ pcU = "insert"
    /\ subscribers' = InsertSubscriber(subscribers, cur, cfg[cur])
    /\ hist' = [hist EXCEPT !.changed = @ \/ subscribers' # subscribers]
    /\ pcU' = "add"
    /\ cur' = NoName
    /\ UNCHANGED <<backendSubs, triggers, ceHandler, lock, cfg, todo>>
    /\ UNCHANGED dispatchVars
    /\ UNCHANGED <<startVars, filterVars>>

\* lines 109-112: an existing name with a deeply equal trigger: continue
UFC_Unchanged ==
    /\ pcU = "add"
    /\ \E name \in todo :
          /\ Exists(name)
          /\ DeepEqual(subscribers[name], cfg[name])
          /\ todo' = todo \ {name}
    /\ UNCHANGED <<subscribers, backendSubs, triggers, ceHandler, lock, pcU, cfg, cur, hist>>
    /\ UNCHANGED dispatchVars
    /\ UNCHANGED <<startVars, filterVars>>

\* lines 114-119: an existing name, changed, whose updateTrigger fails: return
UFC_UpdateFails ==
    /\ pcU = "add"
    /\ \E name \in todo :
          /\ Exists(name)
          /\ ~DeepEqual(subscribers[name], cfg[name])
          /\ updateTriggerFails(cfg[name])
          /\ hist' = [hist EXCEPT !.failed = @ \cup {name}]
    /\ lock' = "free"
    /\ pcU' = "idle"
    /\ todo' = {}
    /\ UNCHANGED <<subscribers, backendSubs, triggers, ceHandler, cfg, cur>>
    /\ UNCHANGED dispatchVars
    /\ UNCHANGED <<startVars, filterVars>>

\* lines 114-116: an existing name, changed: updateTrigger sets s.trigger
UFC_Update ==
    /\ pcU = "add"
    /\ \E name \in todo :
          /\ Exists(name)
          /\ ~DeepEqual(subscribers[name], cfg[name])
          /\ ~updateTriggerFails(cfg[name])
          /\ todo' = todo \ {name}
          /\ subscribers' = [subscribers EXCEPT ![name] = cfg[name]]
    /\ hist' = [hist EXCEPT !.changed = TRUE]
    /\ UNCHANGED <<backendSubs, triggers, ceHandler, lock, pcU, cfg, cur>>
    /\ UNCHANGED dispatchVars
    /\ UNCHANGED <<startVars, filterVars>>

\* line 121: the second range is over: return (the deferred Unlock runs)
UFC_Return ==
    /\ pcU = "add"
    /\ todo = {}
    /\ lock' = "free"
    /\ pcU' = "idle"
    /\ UNCHANGED <<subscribers, backendSubs, triggers, ceHandler, cfg, todo, cur, hist>>
    /\ UNCHANGED dispatchVars
    /\ UNCHANGED <<startVars, filterVars>>

UpdateFromConfig ==
    \/ UFC_Lock \/ UFC_Keep \/ UFC_Unsubscribe \/ UFC_Delete \/ UFC_StartAdd
    \/ UFC_NewFails \/ UFC_Subscribe \/ UFC_Insert \/ UFC_Unchanged
    \/ UFC_UpdateFails \/ UFC_Update \/ UFC_Return

\* lines 151-153
RegisterCloudEventHandler ==
    /\ ~ceHandler
    /\ pcD # "panic"
    /\ ceHandler' = TRUE
    /\ UNCHANGED <<triggers, lock>>
    /\ UNCHANGED managerVars
    /\ UNCHANGED dispatchVars
    /\ UNCHANGED <<startVars, filterVars>>

-----------------------------------------------------------------------------
(* Manager.DispatchCloudEvent, dispatchCloudEventToTarget, send *)

\* what the dispatch did, for the properties:
\*   requests: the calls of ceClient.Request, in order
\*   produced: the calls of m.ceHandler, in order
\*   lost: the lost=true records logged, in order
\*   skipped: the triggers whose filter skipped the event
\*   returned: the triggers whose dispatchCloudEventToTarget returned
ObsInit == [requests |-> <<>>, produced |-> <<>>, lost |-> <<>>,
            skipped |-> {}, returned |-> {}]

NoContext == [target |-> "", retry |-> None]

\* cloudevents.ContextWithTarget(m.ctx, url): m.ctx carries no retry policy
ContextWithTarget(url) == [target |-> url, retry |-> None]

\* cloudevents.ContextWithRetries{Linear,Exponential,Constant}Backoff
ContextWithRetries(c, kind, delay, retries) ==
    [c EXCEPT !.retry = Some([kind |-> kind, delay |-> delay, retries |-> retries])]

\* the comparison with the wrong result: passing events are skipped, failing
\* ones delivered
Skipped_Inverted(res) == res = PassFilter

\* line 132: res == eventfilter.FailFilter
Skipped(res) == res = FailFilter

\* lines 158-161: the retry policy is set up
RetryConfigured(target) ==
    /\ ~IsNil(target.opts)
    /\ ~IsNil(Deref(target.opts).retry)
    /\ Deref(Deref(target.opts).retry) >= 1
    /\ ~IsNil(Deref(target.opts).policy)

\* the switch with its default branch only: every policy is Constant
PolicyKind_AlwaysConstant(policy) == "Constant"

\* lines 170-182: the switch on the backoff policy
PolicyKind(policy) ==
    CASE policy = BackoffPolicyLinear -> "Linear"
      [] policy = BackoffPolicyExponential -> "Exponential"
      [] OTHER -> "Constant"

\* lines 189-190
DeadLetterConfigured(target) ==
    /\ ~IsNil(target.opts)
    /\ ~IsNil(Deref(target.opts).dlurl)
    /\ Deref(Deref(target.opts).dlurl) # ""

\* line 191: ctx = cloudevents.ContextWithTarget(m.ctx, *DeadLetterURL)
DeadLetterContext(c, target) == ContextWithTarget(Deref(Deref(target.opts).dlurl))

\* the results of ceClient.Request: the reply is read on ACK only
ACK == "ACK"
NACK == "NACK"
Undelivered == "Undelivered"
Unknown == "Unknown"
RequestOutcomes ==
    {[result |-> ACK, reply |-> None], [result |-> ACK, reply |-> Some(Reply)],
     [result |-> NACK, reply |-> None], [result |-> Undelivered, reply |-> None],
     [result |-> Unknown, reply |-> None]}

\* lines 207-238: what send returns when no reply is to be handled
SendResult(result) == result = ACK

\* the handler's error is logged and the send still reported as done
SendResultHandled_IgnoresError(err) == TRUE

\* lines 210-220: what send returns after the handler ran
SendResultHandled(err) == ~err

\* lines 185-196: where dispatchCloudEventToTarget goes when send returned
AfterSend(ph, ok) ==
    IF ok THEN "loop"
    ELSE IF ph = "primary" THEN "deadletter" ELSE "lost"

\* lines 126-130: RLock, start the range over m.triggers
DCE_RLock ==
    /\ pcD = "idle"
    /\ lock # "w"
    /\ \E e \in Events : event' = e
    /\ lock' = "r"
    /\ dtodo' = DOMAIN triggers
    /\ pcD' = "loop"
    /\ obs' = ObsInit
    /\ UNCHANGED <<triggers, ceHandler, dcur, ctx, phase, pending>>
    /\ UNCHANGED managerVars
    /\ UNCHANGED <<startVars, filterVars>>

\* lines 131-135: the filter fails: continue
DCE_Skip ==
    /\ pcD = "loop"
    /\ \E i \in dtodo :
          /\ Skipped(CombinedFilter(triggers[i].filters, event))
          /\ dtodo' = dtodo \ {i}
          /\ obs' = [obs EXCEPT !.skipped = @ \cup {i}]
    /\ UNCHANGED <<triggers, ceHandler, lock, pcD, event, dcur, ctx, phase, pending>>
    /\ UNCHANGED managerVars
    /\ UNCHANGED <<startVars, filterVars>>

\* line 131: the filter calls a nil filter (NewNotFilter of a filter that did
\* not materialize): the goroutine panics
DCE_FilterPanics ==
    /\ pcD = "loop"
    /\ \E i \in dtodo :
          /\ CombinedFilter(triggers[i].filters, event) = FilterPanic
          /\ dtodo' = dtodo \ {i}
          /\ dcur' = i
    /\ pcD' = "panic"
    /\ UNCHANGED <<triggers, ceHandler, lock, event, ctx, phase, pending, obs>>
    /\ UNCHANGED managerVars
    /\ UNCHANGED <<startVars, filterVars>>

\* lines 145-146 and 156: the filter does not fail: dispatch to the target
DCE_Dispatch ==
    /\ pcD = "loop"
    /\ \E i \in dtodo :
          /\ ~Skipped(CombinedFilter(triggers[i].filters, event))
          /\ CombinedFilter(triggers[i].filters, event) # FilterPanic
          /\ dtodo' = dtodo \ {i}
          /\ dcur' = i
          /\ ctx' = ContextWithTarget(triggers[i].target.url)
    /\ phase' = "primary"
    /\ pcD' = "prepare"
    /\ UNCHANGED <<triggers, ceHandler, lock, event, pending, obs>>
    /\ UNCHANGED managerVars
    /\ UNCHANGED <<startVars, filterVars>>

\* lines 158-161: no retry policy is attached
DT_NoRetry ==
    /\ pcD = "prepare"
    /\ ~RetryConfigured(triggers[dcur].target)
    /\ pcD' = "request"
    /\ UNCHANGED <<triggers, ceHandler, lock, event, dtodo, dcur, ctx, phase, pending, obs>>
    /\ UNCHANGED managerVars
    /\ UNCHANGED <<startVars, filterVars>>

\* line 163: *target.DeliveryOptions.BackoffDelay with BackoffDelay nil
DT_NilDelay ==
    /\ pcD = "prepare"
    /\ RetryConfigured(triggers[dcur].target)
    /\ IsNil(Deref(triggers[dcur].target.opts).delay)
    /\ pcD' = "panic"
    /\ UNCHANGED <<triggers, ceHandler, lock, event, dtodo, dcur, ctx, phase, pending, obs>>
    /\ UNCHANGED managerVars
    /\ UNCHANGED <<startVars, filterVars>>

\* lines 163-183: the delay parses: the retry policy is attached
DT_Retry ==
    /\ pcD = "prepare"
    /\ RetryConfigured(triggers[dcur].target)
    /\ ~IsNil(Deref(triggers[dcur].target.opts).delay)
    /\ LET o == Deref(triggers[dcur].target.opts)
           parsed == PeriodParse(Deref(o.delay))
       IN /\ ~parsed.err
          /\ ctx' = ContextWithRetries(ctx, PolicyKind(Deref(o.policy)), parsed.dur,
                                       Deref(o.retry))
    /\ pcD' = "request"
    /\ UNCHANGED <<triggers, ceHandler, lock, event, dtodo, dcur, phase, pending, obs>>
    /\ UNCHANGED managerVars
    /\ UNCHANGED <<startVars, filterVars>>

\* lines 163-183: the delay does not parse: the lost=true record is logged,
\* and the retry policy is attached with the zero period's delay
DT_RetryParseError ==
    /\ pcD = "prepare"
    /\ RetryConfigured(triggers[dcur].target)
    /\ ~IsNil(Deref(triggers[dcur].target.opts).delay)
    /\ LET o == Deref(triggers[dcur].target.opts)
           parsed == PeriodParse(Deref(o.delay))
       IN /\ parsed.err
          /\ obs' = [obs EXCEPT !.lost = Append(@, [trigger |-> dcur, event |-> event,
                                                    why |-> "backoff"])]
          /\ ctx' = ContextWithRetries(ctx, PolicyKind(Deref(o.policy)), parsed.dur,
                                       Deref(o.retry))
    /\ pcD' = "request"
    /\ UNCHANGED <<triggers, ceHandler, lock, event, dtodo, dcur, phase, pending>>
    /\ UNCHANGED managerVars
    /\ UNCHANGED <<startVars, filterVars>>

\* the request of this send, as logged
RequestRecord(out) ==
    [trigger |-> dcur, phase |-> phase, url |-> ctx.target, retry |-> ctx.retry,
     event |-> event, result |-> out.result, reply |-> out.reply]

\* lines 205-209, 220-238: Request returns and no reply is to be handled:
\* send returns
DS_Request ==
    /\ pcD = "request"
    /\ \E out \in RequestOutcomes :
          /\ ~(out.result = ACK /\ ~IsNil(out.reply))
          /\ LET nxt == AfterSend(phase, SendResult(out.result))
                 o == [obs EXCEPT !.requests = Append(@, RequestRecord(out))]
             IN /\ pcD' = nxt
                /\ obs' = IF nxt = "loop" THEN [o EXCEPT !.returned = @ \cup {dcur}] ELSE o
    /\ UNCHANGED <<triggers, ceHandler, lock, event, dtodo, dcur, ctx, phase, pending>>
    /\ UNCHANGED managerVars
    /\ UNCHANGED <<startVars, filterVars>>

\* lines 205-209: Request returns ACK and a reply
DS_RequestReply ==
    /\ pcD = "request"
    /\ \E out \in RequestOutcomes :
          /\ out.result = ACK /\ ~IsNil(out.reply)
          /\ pending' = out.reply
          /\ obs' = [obs EXCEPT !.requests = Append(@, RequestRecord(out))]
    /\ pcD' = "handle"
    /\ UNCHANGED <<triggers, ceHandler, lock, event, dtodo, dcur, ctx, phase>>
    /\ UNCHANGED managerVars
    /\ UNCHANGED <<startVars, filterVars>>

\* line 210: m.ceHandler(ctx, res) with no handler registered
DS_NilHandler ==
    /\ pcD = "handle"
    /\ ~ceHandler
    /\ pcD' = "panic"
    /\ UNCHANGED <<triggers, ceHandler, lock, event, dtodo, dcur, ctx, phase, pending, obs>>
    /\ UNCHANGED managerVars
    /\ UNCHANGED <<startVars, filterVars>>

\* lines 210-220: the handler takes the reply; send returns
DS_Handle ==
    /\ pcD = "handle"
    /\ ceHandler
    /\ \E err \in BOOLEAN :
          LET nxt == AfterSend(phase, SendResultHandled(err))
              o == [obs EXCEPT !.produced = Append(@, [trigger |-> dcur, phase |-> phase,
                                                      reply |-> Deref(pending),
                                                      err |-> err])]
          IN /\ pcD' = nxt
             /\ obs' = IF nxt = "loop" THEN [o EXCEPT !.returned = @ \cup {dcur}] ELSE o
    /\ pending' = None
    /\ UNCHANGED <<triggers, ceHandler, lock, event, dtodo, dcur, ctx, phase>>
    /\ UNCHANGED managerVars
    /\ UNCHANGED <<startVars, filterVars>>

\* lines 189-192: the primary send failed and a dead-letter URL is set
DT_DeadLetter ==
    /\ pcD = "deadletter"
    /\ DeadLetterConfigured(triggers[dcur].target)
    /\ ctx' = DeadLetterContext(ctx, triggers[dcur].target)
    /\ phase' = "deadletter"
    /\ pcD' = "request"
    /\ UNCHANGED <<triggers, ceHandler, lock, event, dtodo, dcur, pending, obs>>
    /\ UNCHANGED managerVars
    /\ UNCHANGED <<startVars, filterVars>>

\* lines 189-190: the primary send failed and no dead-letter URL is set
DT_NoDeadLetter ==
    /\ pcD = "deadletter"
    /\ ~DeadLetterConfigured(triggers[dcur].target)
    /\ pcD' = "lost"
    /\ UNCHANGED <<triggers, ceHandler, lock, event, dtodo, dcur, ctx, phase, pending, obs>>
    /\ UNCHANGED managerVars
    /\ UNCHANGED <<startVars, filterVars>>

\* lines 197-202: the lost=true record is logged; return
DT_Lost ==
    /\ pcD = "lost"
    /\ obs' = [obs EXCEPT !.lost = Append(@, [trigger |-> dcur, event |-> event,
                                              why |-> "send"]),
                          !.returned = @ \cup {dcur}]
    /\ pcD' = "loop"
    /\ UNCHANGED <<triggers, ceHandler, lock, event, dtodo, dcur, ctx, phase, pending>>
    /\ UNCHANGED managerVars
    /\ UNCHANGED <<startVars, filterVars>>

\* lines 147-149: the range is over: return (the deferred RUnlock runs)
DCE_Return ==
    /\ pcD = "loop"
    /\ dtodo = {}
    /\ lock' = "free"
    /\ pcD' = "idle"
    /\ UNCHANGED <<triggers, ceHandler, event, dtodo, dcur, ctx, phase, pending, obs>>
    /\ UNCHANGED managerVars
    /\ UNCHANGED <<startVars, filterVars>>

dispatchCloudEventToTarget ==
    \/ DT_NoRetry \/ DT_NilDelay \/ DT_Retry \/ DT_RetryParseError
    \/ DT_DeadLetter \/ DT_NoDeadLetter \/ DT_Lost

send == DS_Request \/ DS_RequestReply \/ DS_NilHandler \/ DS_Handle

-----------------------------------------------------------------------------
(* Specifications *)

\* no task: the errgroup keeps no error
NoTask == "-"

\* what Start did, for the properties:
\*   initOK, initFailed: backend.Init returned nil, an error
\*   callbacks: the reconfigure callbacks registered with the config watcher
\*   watcher: cw.Start was not called ("none"), returned nil ("started") or
\*     an error ("failed")
\*   producer: backend.Produce is registered as ingest's handler
\*   signalled: an interrupt or termination signal arrived
\*   cancelled: the caller cancelled the context it gave to Start
\*   errors: the tasks that returned a non-nil error before Start returned,
\*     in order
SupInit == [initOK |-> FALSE, initFailed |-> FALSE, callbacks |-> {},
            watcher |-> "none", producer |-> FALSE, signalled |-> FALSE,
            cancelled |-> FALSE, errors |-> <<>>]

\* the state New returns: no subscriber, no trigger, no handler
Init ==
    /\ subscribers = EmptyMap
    /\ triggers = EmptyMap
    /\ ceHandler = FALSE
    /\ lock = "free"
    /\ backendSubs = [n \in Names |-> 0]
    /\ pcU = "idle"
    /\ cfg = EmptyMap
    /\ todo = {}
    /\ cur = NoName
    /\ hist = HistInit
    /\ pcD = "idle"
    /\ event = E1
    /\ dtodo = {}
    /\ dcur = NoName
    /\ ctx = NoContext
    /\ phase = "primary"
    /\ pending = None
    /\ obs = ObsInit
    /\ pcS = "idle"
    /\ bTask = "none"
    /\ iTask = "none"
    /\ ctxDone = FALSE
    /\ grpErr = NoTask
    /\ startErr = "none"
    /\ sup = SupInit
    /\ fin = <<>>
    /\ fev = E1
    /\ fmat = <<>>
    /\ fout = NoFilter
    /\ fpc = "idle"

\* The manager as the program runs it: the configuration watcher calls
\* UpdateFromConfig, DispatchCloudEvent is called with events.  No statement of
\* the program assigns m.triggers, so the range of DispatchCloudEvent is over
\* the empty map and its body never runs.
Next ==
    \/ UFC_Lock \/ UFC_Keep \/ UFC_Unsubscribe \/ UFC_Delete \/ UFC_StartAdd
    \/ UFC_NewFails \/ UFC_Subscribe \/ UFC_Insert \/ UFC_Unchanged
    \/ UFC_UpdateFails \/ UFC_Update \/ UFC_Return
    \/ RegisterCloudEventHandler
    \/ DCE_RLock \/ DCE_Return

Spec == Init /\ [][Next]_vars

\* DispatchCloudEvent for every trigger table m.triggers can hold
MaxRetry == 2

Retries == {None, Some(0), Some(MaxRetry)}
Policies == {None, Some(BackoffPolicyLinear), Some(BackoffPolicyExponential),
             Some(BackoffPolicyConstant)}
Delays == {None, Some(DelayOK), Some(DelayBad)}
DeadLetterURLs == {None, Some(""), Some(URLD)}

AllOptions ==
    {None} \cup {Some(DeliveryOptions(r, p, d, dl)) :
                    r \in Retries, p \in Policies, d \in Delays, dl \in DeadLetterURLs}

\* one trigger that passes every event, with every shape of delivery options
TargetPool == {Trigger(<<>>, Target(URLT, o)) : o \in AllOptions}

\* triggers with filters, with two targets
FilterPool ==
    {<<ExactF("type", TypeExT)>>,
     <<PrefixF("type", <<"ot">>), SuffixF("type", <<"t">>)>>,
     <<AnyF(<<CESQLF(CESQLFalse), NotF(ExactF("type", TypeExT))>>)>>,
     <<AllF(<<>>), CESQLF(CESQLInvalid)>>,
     <<NotF(ExactF("", TypeExT))>>}

TargetRetryDL ==
    Target(URLT2, Some(DeliveryOptions(Some(MaxRetry), Some(BackoffPolicyLinear),
                                       Some(DelayOK), Some(URLD))))

FilteredPool == {Trigger(fs, t) : fs \in FilterPool, t \in {Target(URLT, None), TargetRetryDL}}

DispatchNames == {"A", "B"}

DispatchTables ==
    UNION {[S -> FilteredPool] : S \in SUBSET DispatchNames}
    \cup [{"A"} -> TargetPool]

InitDispatch ==
    /\ subscribers = EmptyMap
    /\ triggers \in DispatchTables
    /\ ceHandler = FALSE
    /\ lock = "free"
    /\ backendSubs = [n \in Names |-> 0]
    /\ pcU = "idle"
    /\ cfg = EmptyMap
    /\ todo = {}
    /\ cur = NoName
    /\ hist = HistInit
    /\ pcD = "idle"
    /\ event = E1
    /\ dtodo = {}
    /\ dcur = NoName
    /\ ctx = NoContext
    /\ phase = "primary"
    /\ pending = None
    /\ obs = ObsInit
    /\ pcS = "idle"
    /\ bTask = "none"
    /\ iTask = "none"
    /\ ctxDone = FALSE
    /\ grpErr = NoTask
    /\ startErr = "none"
    /\ sup = SupInit
    /\ fin = <<>>
    /\ fev = E1
    /\ fmat = <<>>
    /\ fout = NoFilter
    /\ fpc = "idle"

NextDispatch ==
    \/ RegisterCloudEventHandler
    \/ DCE_RLock \/ DCE_Skip \/ DCE_FilterPanics \/ DCE_Dispatch
    \/ DT_NoRetry \/ DT_NilDelay \/ DT_Retry \/ DT_RetryParseError
    \/ DS_Request \/ DS_RequestReply \/ DS_NilHandler \/ DS_Handle
    \/ DT_DeadLetter \/ DT_NoDeadLetter \/ DT_Lost
    \/ DCE_Return

SpecDispatch == InitDispatch /\ [][NextDispatch]_vars

\* a goroutine that can take a step takes it: the calls of the dispatch path
\* (Request, the handler) return
FairSpecDispatch == SpecDispatch /\ WF_vars(NextDispatch)

-----------------------------------------------------------------------------
(* Properties of UpdateFromConfig *)

\* the names the backend holds a subscription for
BackendSet == {n \in Names : backendSubs[n] > 0}

\* an UpdateFromConfig call has returned
UFC_Returned == pcU = "idle" /\ hist.calls > 0

\* C1: when UpdateFromConfig(snapshot) has returned, the names subscribed at
\* the backend are the snapshot's keys minus exactly the triggers whose setup
\* failed, and every other trigger of the snapshot is subscribed and up to
\* date: one trigger's failure does not keep another from being set up.
C1_AllButFailedSubscribed ==
    UFC_Returned =>
        /\ BackendSet = DOMAIN cfg \ hist.failed
        /\ \A n \in DOMAIN cfg \ hist.failed :
              n \in DOMAIN subscribers /\ subscribers[n] = cfg[n]

\* C2 (as claimed): a name present in two consecutive snapshots causes neither
\* Unsubscribe nor Subscribe during the second UpdateFromConfig.
C2_NameInBothSnapshotsUntouched ==
    ~IsNil(hist.prev) =>
        (Deref(hist.prev) \cap DOMAIN cfg) \cap (hist.subscribed \cup hist.unsubscribed) = {}

\* C2 (amended): during an UpdateFromConfig call, Subscribe is called only for
\* names of the snapshot that were absent from the subscriber table and
\* Unsubscribe only for subscribers absent from the snapshot; so a name that is
\* in the subscriber table when the call starts and in the snapshot, its
\* trigger equal or changed, causes neither.
C2_SubscriberInSnapshotUntouched ==
    /\ hist.subscribed \subseteq DOMAIN cfg \ hist.entry
    /\ hist.unsubscribed \subseteq hist.entry \ DOMAIN cfg
    /\ (hist.entry \cap DOMAIN cfg) \cap (hist.subscribed \cup hist.unsubscribed) = {}

\* C2 witness: the call {A,B} -> {B',C} has returned: A was unsubscribed, C
\* subscribed, B holds the changed trigger and was not touched at the backend.
C2_Witness ==
    /\ UFC_Returned
    /\ hist.entry = {"A", "B"}
    /\ DOMAIN cfg = {"B", "C"}
    /\ hist.unsubscribed = {"A"}
    /\ hist.subscribed = {"C"}
    /\ subscribers["B"] = TrigG2
    /\ backendSubs["B"] = 1

\* C3: whenever the manager lock is not held for writing, the names subscribed
\* at the backend are the keys of Manager.subscribers, and no name is
\* subscribed at the backend while it already holds a subscription.
C3_BackendMatchesSubscribers ==
    /\ lock # "w" => BackendSet = DOMAIN subscribers
    /\ ~hist.twice
    /\ \A n \in Names : backendSubs[n] <= 1

\* C3 witness: a call that removed a subscriber and then returned on a setup
\* error has released the lock, and subscribers remain.
C3_Witness ==
    /\ UFC_Returned
    /\ lock = "free"
    /\ hist.failed # {}
    /\ hist.unsubscribed # {}
    /\ hist.subscribed # {}
    /\ DOMAIN subscribers # {}

-----------------------------------------------------------------------------
(* Properties of the dispatch *)

ReqIdx == DOMAIN obs.requests
RequestsOf(n, ph) == {i \in ReqIdx : obs.requests[i].trigger = n /\ obs.requests[i].phase = ph}
LostOf(n) == {i \in DOMAIN obs.lost : obs.lost[i].trigger = n}
HandledOf(n, ph) == {j \in DOMAIN obs.produced :
                        obs.produced[j].trigger = n /\ obs.produced[j].phase = ph}

\* the send of phase ph for trigger n succeeded: ACK with no reply, or ACK
\* with the reply taken by the handler without error
SendSucceeded(n, ph) ==
    \E i \in RequestsOf(n, ph) :
        /\ obs.requests[i].result = ACK
        /\ \/ IsNil(obs.requests[i].reply)
           \/ \E j \in HandledOf(n, ph) : ~obs.produced[j].err

\* the dispatch of trigger n reached a terminal outcome
Terminal(n) ==
    \/ n \in obs.skipped
    \/ SendSucceeded(n, "primary")
    \/ SendSucceeded(n, "deadletter")
    \/ LostOf(n) # {}

\* C4: the dispatcher returns only after a terminal outcome (the filter
\* failed, the primary send succeeded, the dead-letter send succeeded, or a
\* lost=true record was logged), and every dispatch to a target does return.
C4_ReturnsAfterTerminalOutcome ==
    /\ [](\A n \in obs.returned \cup obs.skipped : Terminal(n))
    /\ (pcD = "prepare") ~> (pcD = "loop")

\* C5: when DispatchCloudEvent(event) is about to return, the delivery client
\* was invoked with the event and the target URL of every configured trigger
\* whose combined filter passes the event.
C5_PassingTriggersReceive ==
    (pcD = "loop" /\ dtodo = {}) =>
        \A n \in DOMAIN subscribers :
            CombinedFilter(subscribers[n].filters, event) = PassFilter =>
                \E i \in ReqIdx :
                    /\ obs.requests[i].event = event
                    /\ obs.requests[i].url = subscribers[n].target.url

\* C6: for a trigger whose combined filter fails on the event, the delivery
\* client is not invoked (neither target nor dead-letter URL), no reply is
\* handled and no lost=true record is logged.
C6_FailedFilterNoDelivery ==
    pcD # "idle" =>
        \A n \in DOMAIN triggers :
            CombinedFilter(triggers[n].filters, event) = FailFilter =>
                /\ RequestsOf(n, "primary") = {}
                /\ RequestsOf(n, "deadletter") = {}
                /\ LostOf(n) = {}
                /\ n \notin obs.returned

\* C6 witness: the range is over, one trigger was skipped by its filter and
\* another one received the event.
C6_Witness ==
    /\ pcD = "loop" /\ dtodo = {}
    /\ \E n \in DOMAIN triggers :
          /\ CombinedFilter(triggers[n].filters, event) = FailFilter
          /\ n \in obs.skipped
    /\ \E n \in DOMAIN triggers : RequestsOf(n, "primary") # {}

\* C7: when a send got ACK with a reply and the dispatch to the target has
\* returned, the handler was called with that reply; and when the handler
\* returned an error the send counted as failed: after the primary send the
\* dead-letter send follows (or, with no dead-letter URL, the lost record),
\* after the dead-letter send the lost record.
C7_ReplyHandledBeforeReturn ==
    \A n \in obs.returned : \A ph \in {"primary", "deadletter"} :
        \A i \in RequestsOf(n, ph) :
            (obs.requests[i].result = ACK /\ ~IsNil(obs.requests[i].reply)) =>
                /\ \E j \in HandledOf(n, ph) :
                      obs.produced[j].reply = Deref(obs.requests[i].reply)
                /\ \A j \in HandledOf(n, ph) :
                      obs.produced[j].err =>
                          IF ph = "primary" /\ DeadLetterConfigured(triggers[n].target)
                          THEN RequestsOf(n, "deadletter") # {}
                          ELSE \E k \in LostOf(n) : obs.lost[k].why = "send"

\* C7 witness: the handler failed on the reply of the primary send, the
\* dead-letter send followed, and the dispatch has returned.
C7_Witness ==
    \E n \in obs.returned :
        /\ \E j \in HandledOf(n, "primary") : obs.produced[j].err
        /\ RequestsOf(n, "deadletter") # {}

\* C8: for a dispatch that has returned: if neither the primary nor the
\* dead-letter send succeeded, exactly one lost=true record is logged for the
\* event; if one of them succeeded, none is.
C8_ExactlyOneLostRecord ==
    \A n \in obs.returned :
        IF SendSucceeded(n, "primary") \/ SendSucceeded(n, "deadletter")
        THEN LostOf(n) = {}
        ELSE Cardinality(LostOf(n)) = 1

\* C9: the dead-letter send carries the same event and the same retry policy
\* (kind, delay, retries) as the primary send.
C9_DeadLetterSameRetryPolicy ==
    \A n \in DOMAIN triggers :
        \A i \in RequestsOf(n, "primary") : \A j \in RequestsOf(n, "deadletter") :
            /\ obs.requests[j].event = obs.requests[i].event
            /\ obs.requests[j].retry = obs.requests[i].retry

\* C10: when the backoff delay does not parse, the event is logged as lost and
\* the delivery client is invoked neither for the target nor for the
\* dead-letter URL.
C10_ParseErrorNoDelivery ==
    \A n \in DOMAIN triggers :
        (\E k \in LostOf(n) : obs.lost[k].why = "backoff") =>
            RequestsOf(n, "primary") \cup RequestsOf(n, "deadletter") = {}

\* C13: a second UpdateFromConfig call with the snapshot of the call before
\* performs no backend.Subscribe and no backend.Unsubscribe and writes neither
\* the subscriber table nor a subscriber's trigger, whatever the order in
\* which the maps are iterated.
C13_SameSnapshotIsNoOp ==
    hist.same => /\ hist.subscribed = {}
                 /\ hist.unsubscribed = {}
                 /\ ~hist.changed

-----------------------------------------------------------------------------
(* Instance.Start: the supervisor of the backend, the config watcher and
   ingest *)

\* the tasks Start hands to the errgroup
Tasks == {"backend", "ingest"}

\* the errors Start returns: nil, a task's error (named by the task) or the
\* wrapped error of backend.Init or of cw.Start
ErrNil == "nil"
ErrInit == "could not initialize backend"
ErrWatcher == "could not start configuration watcher"

\* errgroup.Group.Go: errOnce keeps the first non-nil error of a task
errOnce(g, t) == IF g = NoTask THEN t ELSE g

\* errgroup.Group.Wait returns the error errOnce kept
Wait(g) == IF g = NoTask THEN ErrNil ELSE g

\* the state of task t
TaskState(t) == IF t = "backend" THEN bTask ELSE iTask

\* backend.Init's error is not looked at
AfterInit_Ignored(err) == "goBackend"

\* where Start goes after backend.Init returned: an error returns at once
AfterInit(err) == IF err THEN "returned" ELSE "goBackend"

\* the callbacks in the order Start registers them
Callbacks == <<"ingest.UpdateFromConfig", "subscription.UpdateFromConfig">>

\* signal.NotifyContext, defer stop(), errgroup.WithContext
Start_NotifyContext ==
    /\ pcS = "idle"
    /\ pcS' = "init"
    /\ UNCHANGED <<bTask, iTask, ctxDone, grpErr, startErr, sup>>
    /\ UNCHANGED <<managerVars, triggers, ceHandler, lock, dispatchVars, filterVars>>

\* backend.Init returns nil or an error; on an error Start returns the wrapped
\* error and the deferred stop() cancels the context
Start_Init ==
    /\ pcS = "init"
    /\ \E err \in BOOLEAN :
          /\ pcS' = AfterInit(err)
          /\ sup' = [sup EXCEPT !.initOK = ~err, !.initFailed = err]
          /\ startErr' = IF pcS' = "returned" THEN ErrInit ELSE startErr
          /\ ctxDone' = (ctxDone \/ pcS' = "returned")
    /\ UNCHANGED <<bTask, iTask, grpErr>>
    /\ UNCHANGED <<managerVars, triggers, ceHandler, lock, dispatchVars, filterVars>>

\* grp.Go(backend.Start)
Start_GoBackend ==
    /\ pcS = "goBackend"
    /\ bTask' = "running"
    /\ pcS' = "callbacks"
    /\ UNCHANGED <<iTask, ctxDone, grpErr, startErr, sup>>
    /\ UNCHANGED <<managerVars, triggers, ceHandler, lock, dispatchVars, filterVars>>

\* cw.AddCallback, for ingest and then for the subscription manager
Start_AddCallback ==
    /\ pcS = "callbacks"
    /\ LET k == Cardinality(sup.callbacks) + 1 IN
          /\ sup' = [sup EXCEPT !.callbacks = @ \cup {Callbacks[k]}]
          /\ pcS' = IF k = Len(Callbacks) THEN "watcher" ELSE "callbacks"
    /\ UNCHANGED <<bTask, iTask, ctxDone, grpErr, startErr>>
    /\ UNCHANGED <<managerVars, triggers, ceHandler, lock, dispatchVars, filterVars>>

\* cw.Start returns nil or an error; on an error Start returns the wrapped
\* error without grp.Wait, and the deferred stop() cancels the context
Start_Watcher ==
    /\ pcS = "watcher"
    /\ \E err \in BOOLEAN :
          IF err
          THEN /\ sup' = [sup EXCEPT !.watcher = "failed"]
               /\ startErr' = ErrWatcher
               /\ ctxDone' = TRUE
               /\ pcS' = "returned"
          ELSE /\ sup' = [sup EXCEPT !.watcher = "started"]
               /\ pcS' = "register"
               /\ UNCHANGED <<startErr, ctxDone>>
    /\ UNCHANGED <<bTask, iTask, grpErr>>
    /\ UNCHANGED <<managerVars, triggers, ceHandler, lock, dispatchVars, filterVars>>

\* i.ingest.RegisterCloudEventHandler(i.backend.Produce)
Start_RegisterProducer ==
    /\ pcS = "register"
    /\ sup' = [sup EXCEPT !.producer = TRUE]
    /\ pcS' = "goIngest"
    /\ UNCHANGED <<bTask, iTask, ctxDone, grpErr, startErr>>
    /\ UNCHANGED <<managerVars, triggers, ceHandler, lock, dispatchVars, filterVars>>

\* grp.Go(ingest.Start)
Start_GoIngest ==
    /\ pcS = "goIngest"
    /\ iTask' = "running"
    /\ pcS' = "wait"
    /\ UNCHANGED <<bTask, ctxDone, grpErr, startErr, sup>>
    /\ UNCHANGED <<managerVars, triggers, ceHandler, lock, dispatchVars, filterVars>>

\* return grp.Wait(): blocks until both tasks returned, cancels the context
\* and returns the first error
Start_Wait ==
    /\ pcS = "wait"
    /\ \A t \in Tasks : TaskState(t) = "done"
    /\ startErr' = Wait(grpErr)
    /\ ctxDone' = TRUE
    /\ pcS' = "returned"
    /\ UNCHANGED <<bTask, iTask, grpErr, sup>>
    /\ UNCHANGED <<managerVars, triggers, ceHandler, lock, dispatchVars, filterVars>>

\* task t returns, nil or an error: the first error of a task is kept and
\* cancels the group's context
TaskReturns(t, err) ==
    /\ TaskState(t) = "running"
    /\ bTask' = IF t = "backend" THEN "done" ELSE bTask
    /\ iTask' = IF t = "ingest" THEN "done" ELSE iTask
    /\ grpErr' = IF err THEN errOnce(grpErr, t) ELSE grpErr
    /\ ctxDone' = (ctxDone \/ err)
    /\ sup' = IF err /\ pcS # "returned"
              THEN [sup EXCEPT !.errors = Append(@, t)]
              ELSE sup
    /\ UNCHANGED <<pcS, startErr>>
    /\ UNCHANGED <<managerVars, triggers, ceHandler, lock, dispatchVars, filterVars>>

\* an interrupt or a termination signal arrives between NotifyContext and
\* stop(): sigctx is cancelled, and the group's context with it
Signal ==
    /\ pcS \notin {"idle", "returned"}
    /\ ~sup.signalled
    /\ sup' = [sup EXCEPT !.signalled = TRUE]
    /\ ctxDone' = TRUE
    /\ UNCHANGED <<pcS, bTask, iTask, grpErr, startErr>>
    /\ UNCHANGED <<managerVars, triggers, ceHandler, lock, dispatchVars, filterVars>>

\* the caller cancels inctx, the parent of sigctx and of the group's context
CancelInctx ==
    /\ pcS # "returned"
    /\ ~sup.cancelled
    /\ sup' = [sup EXCEPT !.cancelled = TRUE]
    /\ ctxDone' = TRUE
    /\ UNCHANGED <<pcS, bTask, iTask, grpErr, startErr>>
    /\ UNCHANGED <<managerVars, triggers, ceHandler, lock, dispatchVars, filterVars>>

\* the steps of Start's own goroutine
StartStep ==
    \/ Start_NotifyContext
    \/ Start_Init
    \/ Start_GoBackend
    \/ Start_AddCallback
    \/ Start_Watcher
    \/ Start_RegisterProducer
    \/ Start_GoIngest
    \/ Start_Wait

NextStart ==
    \/ StartStep
    \/ \E t \in Tasks : TaskReturns(t, TRUE)
    \/ \E t \in Tasks : TaskReturns(t, FALSE)
    \/ Signal
    \/ CancelInctx

SpecStart == Init /\ [][NextStart]_vars

\* Start's goroutine runs, and a task returns once its context is cancelled
FairSpecStart ==
    /\ SpecStart
    /\ WF_vars(StartStep)
    /\ \A t \in Tasks :
          WF_vars(ctxDone /\ (TaskReturns(t, TRUE) \/ TaskReturns(t, FALSE)))


-----------------------------------------------------------------------------
(* Properties of Instance.Start *)

\* C11: once a task has returned a non-nil error the shared context is
\* cancelled, and so it is once a signal has arrived; when Start has returned
\* after a task returned a non-nil error, Start returned the first such error.
C11_FirstTaskErrorReturned ==
    /\ sup.errors # <<>> => ctxDone
    /\ sup.signalled => ctxDone
    /\ (pcS = "returned" /\ sup.errors # <<>>) => startErr = sup.errors[1]

\* C12: backend.Start is spawned only after backend.Init returned nil; cw.Start
\* is called only after both callbacks are registered; ingest.Start is spawned
\* only after backend.Produce is registered as ingest's handler; when
\* backend.Init failed, Start has returned its error and neither task nor the
\* config watcher was started.
C12_StartOrder ==
    /\ bTask # "none" => sup.initOK
    /\ sup.watcher # "none" =>
          sup.callbacks = {Callbacks[k] : k \in 1..Len(Callbacks)}
    /\ iTask # "none" => sup.producer
    /\ sup.initFailed => /\ pcS = "returned"
                         /\ startErr = ErrInit
                         /\ bTask = "none"
                         /\ iTask = "none"
                         /\ sup.watcher = "none"

\* Start went through all its steps: both tasks run and the watcher is started
C12_Witness ==
    /\ bTask = "running"
    /\ iTask = "running"
    /\ sup.watcher = "started"
    /\ sup.producer

\* C20: when Start has returned, no task it spawned is still running.
C20_NoTaskOutlivesStart ==
    pcS = "returned" => \A t \in Tasks : TaskState(t) # "running"

-----------------------------------------------------------------------------
(* materializeFiltersList and the evaluation of its result, on generated
   filter expressions *)

\* the expressions with no child: one that passes E1 only, one that passes E2
\* only, one that passes every event, one that fails every event, two that do
\* not compile, and All and Any with an empty list
FilterLeaves ==
    {ExactF("type", TypeExT), PrefixF("type", <<"ot">>), CESQLF(CESQLTrue),
     CESQLF(CESQLFalse), CESQLF(CESQLInvalid), ExactF("", TypeExT),
     AllF(<<>>), AnyF(<<>>)}

\* the expressions of S, and each of them under Not, All and Any, alone or
\* after a sibling that neither passes nor fails every event
Nested(S) ==
    S \cup {NotF(f) : f \in S}
      \cup {AllF(<<f>>) : f \in S} \cup {AnyF(<<f>>) : f \in S}
      \cup {AllF(<<ExactF("type", TypeExT), f>>) : f \in S}
      \cup {AnyF(<<ExactF("type", TypeExT), f>>) : f \in S}

FilterTrees == Nested(Nested(FilterLeaves))

\* the filter lists of a trigger: one expression, or one after a sibling
FilterInputs ==
    {<<f>> : f \in FilterTrees}
      \cup {<<ExactF("type", TypeExT), f>> : f \in Nested(FilterLeaves)}

RECURSIVE HasCompileError(_)
RECURSIVE AnyHasCompileError(_)

\* a node of the expression does not compile
HasCompileError(f) ==
    CASE f.kind \in {"exact", "prefix", "suffix"} -> LeafError(f.attr, f.value)
      [] f.kind = "cesql" -> ~CESQLCompiles(f.cesql)
      [] OTHER -> AnyHasCompileError(f.subs)

AnyHasCompileError(fs) ==
    IF fs = <<>> THEN FALSE
    ELSE HasCompileError(Head(fs)) \/ AnyHasCompileError(Tail(fs))

\* what DispatchCloudEvent does with the filter's result
Decision(res) ==
    IF res = FilterPanic THEN "panic"
    ELSE IF Skipped(res) THEN "skip" ELSE "dispatch"

InitFilter ==
    /\ subscribers = EmptyMap
    /\ triggers = EmptyMap
    /\ ceHandler = FALSE
    /\ lock = "free"
    /\ backendSubs = [n \in Names |-> 0]
    /\ pcU = "idle"
    /\ cfg = EmptyMap
    /\ todo = {}
    /\ cur = NoName
    /\ hist = HistInit
    /\ pcD = "idle"
    /\ event = E1
    /\ dtodo = {}
    /\ dcur = NoName
    /\ ctx = NoContext
    /\ phase = "primary"
    /\ pending = None
    /\ obs = ObsInit
    /\ pcS = "idle"
    /\ bTask = "none"
    /\ iTask = "none"
    /\ ctxDone = FALSE
    /\ grpErr = NoTask
    /\ startErr = "none"
    /\ sup = SupInit
    /\ fin \in FilterInputs
    /\ fev \in Events
    /\ fmat = <<>>
    /\ fout = NoFilter
    /\ fpc = "idle"

\* materializeFiltersList(ctx, trigger.Filters)
Materialize ==
    /\ fpc = "idle"
    /\ fmat' = materializeFiltersList(fin)
    /\ fpc' = "materialized"
    /\ UNCHANGED <<fin, fev, fout>>
    /\ UNCHANGED <<managerVars, triggers, ceHandler, lock, dispatchVars, startVars>>

\* NewAllFilter(materialized...).Filter(ctx, event)
Evaluate ==
    /\ fpc = "materialized"
    /\ fout' = Filter(AllF(fmat), fev)
    /\ fpc' = "done"
    /\ UNCHANGED <<fin, fev, fmat>>
    /\ UNCHANGED <<managerVars, triggers, ceHandler, lock, dispatchVars, startVars>>

NextFilter ==
    \/ Materialize
    \/ Evaluate

SpecFilter == InitFilter /\ [][NextFilter]_vars

-----------------------------------------------------------------------------
(* Properties of the filter materialization *)

RECURSIVE WithConstants(_)
RECURSIVE ListWithConstants(_)

\* the expression with every empty All replaced by an expression that passes
\* every event and every empty Any by one that fails every event
WithConstants(f) ==
    IF f = AllF(<<>>) THEN CESQLF(CESQLTrue)
    ELSE IF f = AnyF(<<>>) THEN CESQLF(CESQLFalse)
    ELSE [f EXCEPT !.subs = ListWithConstants(@)]

ListWithConstants(fs) ==
    IF fs = <<>> THEN <<>>
    ELSE <<WithConstants(Head(fs))>> \o ListWithConstants(Tail(fs))

\* C14: an All with no child evaluates as a filter that passes every event and
\* an Any with no child as a filter that fails every event, wherever it
\* occurs: a filter list whose nodes all compile decides an event as the same
\* list does with its empty All and Any replaced by such filters.
C14_EmptyAllPassesEmptyAnyFails ==
    (fpc = "done" /\ ~AnyHasCompileError(fin)) =>
        Decision(fout) = Decision(CombinedFilter(ListWithConstants(fin), fev))

\* C15: when a node of a trigger's filter list does not compile, nothing is
\* materialized for the list.
C15_NothingMaterializedOnCompileError ==
    (fpc # "idle" /\ AnyHasCompileError(fin)) => fmat = <<>>

-----------------------------------------------------------------------------
(* Properties of the delivery options *)

\* the retry count of the target's delivery options, 0 when absent
RetryCount(target) ==
    IF IsNil(target.opts) \/ IsNil(Deref(target.opts).retry) THEN 0
    ELSE Deref(Deref(target.opts).retry)

\* the target's backoff delay is present and parses
DelayParses(target) ==
    /\ ~IsNil(target.opts)
    /\ ~IsNil(Deref(target.opts).delay)
    /\ ~PeriodParse(Deref(Deref(target.opts).delay)).err

\* dispatchCloudEventToTarget crashed for trigger n before its first send
CrashedBeforeSend(n) ==
    /\ pcD = "panic"
    /\ dcur = n
    /\ CombinedFilter(triggers[n].filters, event) # FilterPanic
    /\ RequestsOf(n, "primary") = {}

C17_SendsOncePerDispatch ==
    \A n \in DOMAIN triggers :
        LET P == RequestsOf(n, "primary")
            D == RequestsOf(n, "deadletter")
        IN /\ Cardinality(P) <= 1
           /\ Cardinality(D) <= 1
           /\ (n \in obs.returned \/ CrashedBeforeSend(n)) => Cardinality(P) = 1
           /\ D # {} => /\ P # {}
                        /\ \A i \in P, j \in D : i < j
                        /\ ~SendSucceeded(n, "primary")
                        /\ DeadLetterConfigured(triggers[n].target)

\* C19: dispatchCloudEventToTarget does not crash on an absent option: no
\* dispatch ends in a panic before its first send.
C19_NoNilDereference == \A n \in DOMAIN triggers : ~CrashedBeforeSend(n)

-----------------------------------------------------------------------------
(* Instance.Start with the backend task delivering events to the dispatcher *)

\* the trigger table is one trigger that passes every event, with no delivery
\* options
InitStartDispatch ==
    /\ subscribers = EmptyMap
    /\ triggers = [n \in {"A"} |-> Trigger(<<>>, Target(URLT, None))]
    /\ ceHandler = FALSE
    /\ lock = "free"
    /\ backendSubs = [n \in Names |-> 0]
    /\ pcU = "idle"
    /\ cfg = EmptyMap
    /\ todo = {}
    /\ cur = NoName
    /\ hist = HistInit
    /\ pcD = "idle"
    /\ event = E1
    /\ dtodo = {}
    /\ dcur = NoName
    /\ ctx = NoContext
    /\ phase = "primary"
    /\ pending = None
    /\ obs = ObsInit
    /\ pcS = "idle"
    /\ bTask = "none"
    /\ iTask = "none"
    /\ ctxDone = FALSE
    /\ grpErr = NoTask
    /\ startErr = "none"
    /\ sup = SupInit
    /\ fin = <<>>
    /\ fev = E1
    /\ fmat = <<>>
    /\ fout = NoFilter
    /\ fpc = "idle"

\* backend.Start, while it runs, hands an event to the dispatcher
Backend_Dispatch ==
    /\ bTask = "running"
    /\ DCE_RLock

\* Start and its tasks, the registration of the reply handler and the steps
\* of a dispatch with this trigger table; a panic of the dispatching goroutine
\* ends the process
NextStartDispatch ==
    \/ pcD # "panic" /\ StartStep
    \/ pcD # "panic" /\ \E t \in Tasks : TaskReturns(t, TRUE)
    \/ pcD # "panic" /\ \E t \in Tasks : TaskReturns(t, FALSE)
    \/ pcD # "panic" /\ Signal
    \/ pcD # "panic" /\ CancelInctx
    \/ RegisterCloudEventHandler
    \/ Backend_Dispatch
    \/ DCE_Dispatch
    \/ DT_NoRetry
    \/ DS_Request
    \/ DS_RequestReply
    \/ DS_NilHandler
    \/ DS_Handle
    \/ DT_NoDeadLetter
    \/ DT_Lost
    \/ DCE_Return

SpecStartDispatch == InitStartDispatch /\ [][NextStartDispatch]_vars

====
